---- MODULE Spec2Model ----
(***************************************************************************)
(* bevy_doryen: the bridge between the Bevy application (systems over a    *)
(* world of resources and event queues) and the Doryen host loop (update,  *)
(* render and resize callbacks over a DoryenApi handle).                   *)
(*                                                                         *)
(* The model follows src/src/lib.rs (DoryenPluginEngine, doryen_runner)    *)
(* and src/src/render_system.rs (RenderState, DoryenRenderSystems,         *)
(* RenderSystemExtensions).  Every callback is cut at the places where     *)
(* the console, the render schedule or an event queue changes hands; pc    *)
(* is the position inside the callback that is running.                    *)
(***************************************************************************)
EXTENDS Integers, Sequences, FiniteSets, TLC

(***************************************************************************)
(* Bounds of the model.                                                    *)
(***************************************************************************)
\* Render systems the application registers before it runs.
MaxSystems == 2
\* State drivers registered through add_doryen_render_state.
MaxDrivers == 2
\* Events of one kind (SetFontPath, AppExit) sent over a run.
MaxEvents == 3
\* Screen and console dimensions of the small startup configurations.
MaxDim == 2
\* Resize notifications over a run.
MaxResizes == 2
\* Completed take/restore pairs the ownership-cell harness counts.
MaxPairs == 2

(***************************************************************************)
(* Values.                                                                 *)
(***************************************************************************)
\* Option<T>: None is the empty sequence, Some(x) the one-element sequence.
None == <<>>
Some(x) == <<x>>
Unwrap(o) == o[1]

\* The elements of a sequence.
SeqRange(q) == {q[i] : i \in 1..Len(q)}

\* Console::new(w, h): a blank console.  real tells the loop's own console
\* from the engine's placeholder; content stands for the cells.
NewConsole(isReal, w, h) == [real |-> isReal, w |-> w, h |-> h, content |-> 0]

\* lib.rs:396: swap_console: Some(Console::new(1, 1)).
PlaceholderConsole == NewConsole(FALSE, 1, 1)

\* Console::resize(w, h) and Console::get_size().
ConsoleResize(c, w, h) == [c EXCEPT !.w = w, !.h = h]
ConsoleSize(c) == <<c.w, c.h>>

\* What a system or a resize callback may draw.
Contents == {0, 1}

\* The three resize policies (lib.rs:439-454).
ResizeModes == {"Nothing", "Automatic", "Callback"}

\* The stages of the render schedule, in the order DoryenRenderSystems::default
\* adds them: add_stage(First), then add_stage_after(previous, next) four times.
AddStage(order, label) == Append(order, label)

\* AddStageAfter putting the new stage first.
AddStageFirst(order, target, label) == <<label>> \o order

AddStageAfter(order, target, label) ==
    LET i == CHOOSE k \in 1..Len(order) : order[k] = target
    IN  SubSeq(order, 1, i) \o <<label>> \o SubSeq(order, i + 1, Len(order))

StageOrder ==
    AddStageAfter(
      AddStageAfter(
        AddStageAfter(
          AddStageAfter(AddStage(<<>>, "First"), "First", "PreRender"),
          "PreRender", "Render"),
        "Render", "PostRender"),
      "PostRender", "Last")

RenderStages == {"First", "PreRender", "Render", "PostRender", "Last"}

\* The font paths a SetFontPath event may carry.
FontPaths == {"f1", "f2"}

(***************************************************************************)
(* Events<T> of bevy_app, as the engine uses it: two buffers, of which the  *)
(* older is dropped by each update, and a reader holding the count of the   *)
(* events it has seen.                                                      *)
(***************************************************************************)
EventsDefault ==
    [a |-> <<>>, b |-> <<>>, a_start |-> 0, b_start |-> 0, count |-> 0, state |-> "A"]

EventsSend(ev, x) ==
    IF ev.state = "A"
    THEN [ev EXCEPT !.a = Append(@, x), !.count = @ + 1]
    ELSE [ev EXCEPT !.b = Append(@, x), !.count = @ + 1]

EventsUpdate(ev) ==
    IF ev.state = "A"
    THEN [ev EXCEPT !.b = <<>>, !.b_start = ev.count, !.state = "B"]
    ELSE [ev EXCEPT !.a = <<>>, !.a_start = ev.count, !.state = "A"]

\* buf.get(i..): the events of a buffer from index i (0-based) on.
BufferFrom(buf, i) == IF i >= Len(buf) THEN <<>> ELSE SubSeq(buf, i + 1, Len(buf))

\* ManualEventReader::iter(&events): the events not seen yet, oldest first.
ReaderIter(last, ev) ==
    LET a_index == IF last > ev.a_start THEN last - ev.a_start ELSE 0
        b_index == IF last > ev.b_start THEN last - ev.b_start ELSE 0
    IN  IF ev.state = "A"
        THEN BufferFrom(ev.b, b_index) \o BufferFrom(ev.a, a_index)
        ELSE BufferFrom(ev.a, a_index) \o BufferFrom(ev.b, b_index)

\* Iterator::last().
IterLast(s) == IF s = <<>> THEN None ELSE Some(s[Len(s)])


(***************************************************************************)
(* Settings (lib.rs:144-177).                                              *)
(***************************************************************************)
\* AppOptions::default() of doryen_rs: an 80x45 console of 8x8 pixel cells.
DefaultAppOptions ==
    [screen_width |-> 640, screen_height |-> 360,
     console_width |-> 80, console_height |-> 45]

DefaultListeners == <<"Left", "Middle", "Right">>

\* impl Default for DoryenPluginSettings.
DefaultSettings ==
    [app_options |-> DefaultAppOptions,
     mouse_button_listeners |-> DefaultListeners,
     resize_mode |-> "Nothing"]

\* A startup configuration with a ratio of 10 screen pixels per console
\* cell: an 800x600 screen over an 80x60 console.
ExampleAppOptions ==
    [screen_width |-> 800, screen_height |-> 600,
     console_width |-> 80, console_height |-> 60]

SmallAppOptions ==
    [screen_width : 1..MaxDim, screen_height : 1..MaxDim,
     console_width : 1..MaxDim, console_height : 1..MaxDim]

\* MouseButton (lib.rs:128, 169-173).
MouseButtons == {"Left", "Middle", "Right"}

\* The keys of the example (examples/exit.rs:33-38).
Keys == {"Escape"}

\* The input snapshots the host loop may hold.
InputSnapshots ==
    [keys : SUBSET Keys, mouse : SUBSET MouseButtons, close_requested : BOOLEAN]

\* Input::default(): nothing pressed.
NoInput == [keys |-> {}, mouse |-> {}, close_requested |-> FALSE]

\* The mouse_button_listeners an application may configure.
ListenerLists == {<<>>, <<"Right">>, <<"Middle", "Left">>, DefaultListeners}

\* The DoryenPluginSettings an application may insert, or write later.
AnySettings ==
    [app_options : {ExampleAppOptions}, mouse_button_listeners : ListenerLists,
     resize_mode : ResizeModes]

\* The screen sizes the host loop may report to resize.
ScreenSizes == {<<1600, 600>>, <<800, 600>>, <<850, 470>>, <<59, 59>>} \cup ((1..MaxDim) \X (1..MaxDim))

(***************************************************************************)
(* State.                                                                  *)
(***************************************************************************)
VARIABLES
    pc,                     \* position of the running callback; "build", "loop", "fault"
    fault,                  \* the panic that ended the run, "none" while running
    apiCon,                 \* api.con(): the host loop's console slot
    apiScreen,              \* api.get_screen_size()
    rootConsole,            \* RootConsole.0: Option<Console>
    swap_console,           \* DoryenPluginEngine::swap_console: Option<Console>
    settings,               \* the DoryenPluginSettings resource: Option<settings>
    mouse_button_listeners, \* engine field
    resize_mode,            \* engine field
    previous_screen_size,   \* engine field
    previous_console_size,  \* engine field
    fpsInfo,                \* the FpsInfo resource
    apiInput,               \* api.input(): the host loop's input snapshot
    doryen_input,           \* the Input resource
    renderSystems,          \* DoryenRenderSystems.0: Option<Schedule>
    doryen_render_schedule, \* render's local: the schedule taken out of the slot
    stageIdx,               \* the stage Schedule::run is at
    ranLog,                 \* the <<stage, system>> pairs run in this render pass
    nextSystem,             \* systems registered so far
    rs0,                    \* RenderState.0: the dirty flag
    rs1,                    \* RenderState.1: the driver callbacks
    di,                     \* render's loop over rs.1: the callbacks called so far
    fontEvents,             \* Events<SetFontPath>
    fontReader,             \* set_font_path_event_reader.last_event_count
    exitEvents,             \* Events<AppExit>: Option<Events>
    exitReader,             \* app_exit_event_reader.last_event_count
    resizedCount,           \* Events<Resized>: events sent
    resized,                \* resize's local: the Resized event of this call
    updateResult,           \* what the last update call returned
    hist                    \* observations of the run, read by the properties only

conVars == <<apiCon, rootConsole, swap_console>>
engineVars == <<mouse_button_listeners, resize_mode, previous_screen_size,
                previous_console_size>>
schedVars == <<renderSystems, doryen_render_schedule, stageIdx, ranLog, nextSystem>>
stateVars == <<rs0, rs1, di>>
eventVars == <<fontEvents, fontReader, exitEvents, exitReader>>
resizeVars == <<apiScreen, resizedCount, resized>>
inputVars == <<apiInput, doryen_input>>

vars == <<pc, fault, apiCon, apiScreen, rootConsole, swap_console, settings,
          mouse_button_listeners, resize_mode, previous_screen_size,
          previous_console_size, fpsInfo, apiInput, doryen_input, renderSystems, doryen_render_schedule,
          stageIdx, ranLog, nextSystem, rs0, rs1, di, fontEvents, fontReader,
          exitEvents, exitReader, resizedCount, resized, updateResult, hist>>


(***************************************************************************)
(* Construction: Plugin::build (lib.rs:179-190) has initialised the        *)
(* resources; the application is still being built.                        *)
(***************************************************************************)
\* Schedule::default() with the five stages added, each without systems.
EmptySchedule == [order |-> StageOrder, systems |-> [s \in RenderStages |-> <<>>]]

HistInit ==
    [snap |-> None,          \* the loop's console before the first take
     pairs |-> 0,            \* take/restore pairs completed
     mutated |-> FALSE,      \* somebody wrote to the console since snap
     takesOpen |-> 0,        \* takes called since the last restore call
     call |-> "none",        \* the callback that runs, or ran last
     driverLog |-> <<>>,     \* the drivers called in this render pass
     flagAtStart |-> FALSE,  \* the dirty flag when this render pass looked at it
     marked |-> FALSE,       \* state_updated was called since the last look at the flag
     markedAtCheck |-> FALSE,\* marked, when this render pass looked at the flag
     everMarked |-> FALSE,   \* state_updated was called at all
     markedBetween |-> FALSE,\* a primary-pass system called it since the last render call
     unnamed |-> {},         \* the systems registered without a stage name
     renders |-> 0,          \* render passes that reached the flag
     fontCalls |-> <<>>,     \* the set_font_path calls of this update call
     fontPending |-> <<>>,   \* SetFontPath events sent since the last font check
     fontSeen |-> <<>>,      \* those that were pending at the last font check
     exitPending |-> 0,      \* AppExit events sent since the last exit check
     exitSeen |-> 0,         \* how many were pending at the last exit check
     nestedTake |-> FALSE,   \* the schedule was asked for while it was out
     resizeIn |-> None,      \* what the last resize call started from
     startup |-> None,       \* the settings the runner consumed
     resizeCalls |-> 0,      \* resize calls made
     prevResized |-> None,   \* the Resized event of the resize call before
     callbackArgs |-> None,  \* what the resize callback of this call was given
     callbackOut |-> None,   \* the console size the callback left
     inserted |-> None,      \* the settings the application inserted
     settingsWritten |-> FALSE, \* a system wrote to the settings resource
     apiFps |-> None,        \* api.fps() and api.average_fps() of this update call
     strayRestore |-> FALSE, \* restore was called while the console was not held
     renderExitPending |-> FALSE, \* a render system sent AppExit since the last exit check
     renderExitSeen |-> FALSE]    \* renderExitPending, at the last exit check

Init ==
    /\ pc = "build"
    /\ fault = "none"
    /\ apiCon = None
    /\ apiScreen = <<0, 0>>
    /\ rootConsole = None
    /\ swap_console = None
    /\ settings = None
    /\ mouse_button_listeners = <<>>
    /\ resize_mode = "Nothing"
    /\ previous_screen_size = <<0, 0>>
    /\ previous_console_size = <<0, 0>>
    /\ fpsInfo = [fps |-> 0, average_fps |-> 0]
    /\ apiInput = NoInput
    /\ doryen_input = NoInput
    /\ renderSystems = Some(EmptySchedule)
    /\ doryen_render_schedule = None
    /\ stageIdx = 0
    /\ ranLog = <<>>
    /\ nextSystem = 1
    /\ rs0 = TRUE
    /\ rs1 = <<>>
    /\ di = 0
    /\ fontEvents = EventsDefault
    /\ fontReader = 0
    /\ exitEvents = Some(EventsDefault)
    /\ exitReader = 0
    /\ resizedCount = 0
    /\ resized = None
    /\ updateResult = "none"
    /\ hist = HistInit

\* A panic: the callback ends there and the process with it.
Panic(msg) == pc' = "fault" /\ fault' = msg

Goto(to) == pc' = to /\ fault' = fault

\* App::insert_resource(DoryenPluginSettings { .. }) (lib.rs:18-37).
InsertSettings(s) ==
    /\ pc = "build"
    /\ settings = None
    /\ settings' = Some(s)
    /\ hist' = [hist EXCEPT !.inserted = Some(s)]
    /\ UNCHANGED <<pc, fault, conVars, engineVars, fpsInfo, inputVars, schedVars, stateVars,
                   eventVars, resizeVars, updateResult>>

\* Runner reading the settings through a clone: the resource keeps them.
RunnerKeepsSettings ==
    /\ pc = "build"
    /\ LET resource_settings == IF settings = None THEN DefaultSettings ELSE Unwrap(settings)
           app_options == resource_settings.app_options
       IN  /\ settings' = Some(resource_settings)
           /\ apiCon' = NewConsole(TRUE, app_options.console_width, app_options.console_height)
           /\ apiScreen' = <<app_options.screen_width, app_options.screen_height>>
           /\ swap_console' = Some(PlaceholderConsole)
           /\ mouse_button_listeners' = resource_settings.mouse_button_listeners
           /\ previous_screen_size' = <<app_options.screen_width, app_options.screen_height>>
           /\ previous_console_size' = <<app_options.console_width, app_options.console_height>>
           /\ resize_mode' = resource_settings.resize_mode
           /\ hist' = [hist EXCEPT !.startup = Some(resource_settings)]
    /\ Goto("loop")
    /\ UNCHANGED <<rootConsole, fpsInfo, inputVars, schedVars, stateVars, eventVars,
                   resizedCount, resized, updateResult>>

\* An application built on AppBuilder::empty(): it has no Events<AppExit>
\* resource, which update looks up with get_resource_mut (lib.rs:292).
AppBuilderEmpty ==
    /\ pc = "build"
    /\ exitEvents # None
    /\ exitEvents' = None
    /\ UNCHANGED <<pc, fault, conVars, apiScreen, settings, engineVars, fpsInfo,
                   inputVars, schedVars, stateVars, fontEvents, fontReader,
                   exitReader, resizedCount, resized, updateResult, hist>>

\* doryen_runner (lib.rs:371-404): the settings are taken out of the resource,
\* which keeps the default; the engine is built from them and the loop starts.
Runner ==
    /\ pc = "build"
    /\ LET resource_settings == IF settings = None THEN DefaultSettings ELSE Unwrap(settings)
           app_options == resource_settings.app_options
       IN  /\ settings' = Some(DefaultSettings)
           /\ apiCon' = NewConsole(TRUE, app_options.console_width, app_options.console_height)
           /\ apiScreen' = <<app_options.screen_width, app_options.screen_height>>
           /\ swap_console' = Some(PlaceholderConsole)
           /\ mouse_button_listeners' = resource_settings.mouse_button_listeners
           /\ previous_screen_size' = <<app_options.screen_width, app_options.screen_height>>
           /\ previous_console_size' = <<app_options.console_width, app_options.console_height>>
           /\ resize_mode' = resource_settings.resize_mode
           /\ hist' = [hist EXCEPT !.startup = Some(resource_settings)]
    /\ Goto("loop")
    /\ UNCHANGED <<rootConsole, fpsInfo, inputVars, schedVars, stateVars, eventVars,
                   resizedCount, resized, updateResult>>

(***************************************************************************)
(* The ownership cell (lib.rs:204-234).  Each method is two steps: the     *)
(* swap with the loop's slot and the move into or out of the resource.     *)
(***************************************************************************)
\* TakeSwap without the unwrap: with nothing to swap in, the loop's console is
\* copied into the swap slot and the take goes on.
TakeSwapUnchecked(from, to) ==
    /\ pc = from
    /\ apiCon' = IF swap_console = None THEN apiCon ELSE Unwrap(swap_console)
    /\ swap_console' = Some(apiCon)
    /\ rootConsole' = rootConsole
    /\ Goto(to)

\* take_root_console_ownership, lib.rs:209:
\*   swap(api.con(), &mut self.swap_console.as_mut().unwrap())
TakeSwap(from, to) ==
    /\ pc = from
    /\ IF swap_console = None
       THEN Panic("take: swap_console is None") /\ UNCHANGED conVars
       ELSE /\ apiCon' = Unwrap(swap_console)
            /\ swap_console' = Some(apiCon)
            /\ rootConsole' = rootConsole
            /\ Goto(to)

\* TakeInsert with a clone in place of the take: the console stays in the
\* swap slot as well.
TakeInsertClone(from, to) ==
    /\ pc = from
    /\ rootConsole' = swap_console
    /\ swap_console' = swap_console
    /\ apiCon' = apiCon
    /\ Goto(to)

\* take_root_console_ownership, lib.rs:212-217:
\*   doryen_root_console.0 = self.swap_console.take()
TakeInsert(from, to) ==
    /\ pc = from
    /\ rootConsole' = swap_console
    /\ swap_console' = None
    /\ apiCon' = apiCon
    /\ Goto(to)

\* RestoreTake leaving the swap slot alone when RootConsole is empty.
RestoreTakeIfHeld(from, to) ==
    /\ pc = from
    /\ swap_console' = IF rootConsole = None THEN swap_console ELSE rootConsole
    /\ rootConsole' = None
    /\ apiCon' = apiCon
    /\ Goto(to)

\* restore_root_console_ownership, lib.rs:225-230:
\*   self.swap_console = doryen_root_console.0.take()
RestoreTake(from, to) ==
    /\ pc = from
    /\ swap_console' = rootConsole
    /\ rootConsole' = None
    /\ apiCon' = apiCon
    /\ Goto(to)

\* RestoreSwap with the swap left out: the console stays in the swap slot.
RestoreSwapSkipped(from, to) ==
    /\ pc = from
    /\ IF swap_console = None
       THEN Panic("restore: swap_console is None") /\ UNCHANGED conVars
       ELSE UNCHANGED conVars /\ Goto(to)

\* restore_root_console_ownership, lib.rs:233:
\*   swap(api.con(), &mut self.swap_console.as_mut().unwrap())
RestoreSwap(from, to) ==
    /\ pc = from
    /\ IF swap_console = None
       THEN Panic("restore: swap_console is None") /\ UNCHANGED conVars
       ELSE /\ apiCon' = Unwrap(swap_console)
            /\ swap_console' = Some(apiCon)
            /\ rootConsole' = rootConsole
            /\ Goto(to)

\* The rest of the state, which the ownership cell does not touch.
notCon == <<apiScreen, settings, engineVars, fpsInfo, inputVars, schedVars, stateVars,
            eventVars, resizedCount, resized, updateResult>>

(***************************************************************************)
(* The ownership cell driven directly: take and restore called in any      *)
(* order on a freshly built engine, and a holder of the RootConsole        *)
(* resource drawing on the console between the calls.                      *)
(***************************************************************************)
CellTake ==
    /\ hist.pairs < MaxPairs
    /\ TakeSwap("loop", "cell_take")
    /\ hist' = IF hist.snap = None
               THEN [hist EXCEPT !.snap = Some(apiCon), !.call = "take", !.takesOpen = @ + 1]
               ELSE [hist EXCEPT !.call = "take", !.takesOpen = @ + 1]
    /\ UNCHANGED notCon

CellTakeInsert ==
    /\ TakeInsert("cell_take", "loop")
    /\ UNCHANGED <<notCon, hist>>

CellRestore ==
    /\ RestoreTake("loop", "cell_restore")
    /\ hist' = [hist EXCEPT !.call = "restore", !.takesOpen = 0,
                            !.strayRestore = (rootConsole = None)]
    /\ UNCHANGED notCon

CellRestoreSwap ==
    /\ RestoreSwap("cell_restore", "loop")
    /\ hist' = IF swap_console = None THEN hist ELSE [hist EXCEPT !.pairs = @ + 1]
    /\ UNCHANGED notCon

\* A system holding ResMut<RootConsole> draws (examples/exit.rs:43-64).
CellDraw(x) ==
    /\ pc = "loop"
    /\ rootConsole # None
    /\ Unwrap(rootConsole).content # x
    /\ rootConsole' = Some([Unwrap(rootConsole) EXCEPT !.content = x])
    /\ hist' = [hist EXCEPT !.mutated = TRUE]
    /\ UNCHANGED <<pc, fault, apiCon, swap_console, notCon>>

StartupSettings(options, modes) ==
    [app_options : options, mouse_button_listeners : {DefaultListeners},
     resize_mode : modes]

NextCell ==
    \/ \E s \in StartupSettings(SmallAppOptions, {"Nothing"}) : InsertSettings(s)
    \/ Runner
    \/ CellTake
    \/ CellTakeInsert
    \/ CellRestore
    \/ CellRestoreSwap
    \/ \E x \in Contents : CellDraw(x)

SpecCell == Init /\ [][NextCell]_vars


(***************************************************************************)
(* Engine::update (lib.rs:265-303).                                        *)
(***************************************************************************)
\* The host loop polls the devices between two callbacks: api.input() holds
\* another snapshot.
PollInput(snapshot) ==
    /\ pc = "loop"
    /\ apiInput # snapshot
    /\ apiInput' = snapshot
    /\ UNCHANGED <<pc, fault, conVars, apiScreen, settings, engineVars, fpsInfo,
                   doryen_input, schedVars, stateVars, eventVars, resizedCount,
                   resized, updateResult, hist>>

\* lib.rs:266-269: refresh FpsInfo from the loop.
UpdateFps(fps, average_fps) ==
    /\ pc = "loop"
    /\ fpsInfo' = [fps |-> fps, average_fps |-> average_fps]
    /\ Goto("update_input")
    /\ hist' = [hist EXCEPT !.call = "update", !.fontCalls = <<>>,
                            !.apiFps = Some(<<fps, average_fps>>)]
    /\ UNCHANGED <<conVars, apiScreen, settings, engineVars, inputVars, schedVars, stateVars,
                   eventVars, resizedCount, resized, updateResult>>

\* Input::handle_input: the Input State is rebuilt from the snapshot, not
\* merged with what it held: the keys and the close request as the snapshot
\* has them, and of the mouse buttons those of the listener list that the
\* snapshot reports pressed.
HandleInput(listeners, snapshot) ==
    [keys |-> snapshot.keys,
     mouse |-> {b \in SeqRange(listeners) : b \in snapshot.mouse},
     close_requested |-> snapshot.close_requested]

\* UpdateInput asking for every mouse button there is.
UpdateInputAllButtons ==
    /\ pc = "update_input"
    /\ doryen_input' = HandleInput(DefaultListeners, apiInput)
    /\ Goto("update_take")
    /\ UNCHANGED <<conVars, apiScreen, settings, engineVars, fpsInfo, apiInput,
                   schedVars, stateVars, eventVars, resizedCount, resized,
                   updateResult, hist>>

\* UpdateInput going on to the primary pass without the take.
UpdateInputSkipsTake ==
    /\ pc = "update_input"
    /\ doryen_input' = HandleInput(mouse_button_listeners, apiInput)
    /\ Goto("pass_first")
    /\ UNCHANGED <<conVars, apiScreen, settings, engineVars, fpsInfo, apiInput,
                   schedVars, stateVars, eventVars, resizedCount, resized,
                   updateResult, hist>>

\* lib.rs:271, 256-261: self.handle_input(api):
\*   doryen_input.handle_input(&self.mouse_button_listeners, api.input()).
UpdateInput ==
    /\ pc = "update_input"
    /\ doryen_input' = HandleInput(mouse_button_listeners, apiInput)
    /\ Goto("update_take")
    /\ UNCHANGED <<conVars, apiScreen, settings, engineVars, fpsInfo, apiInput,
                   schedVars, stateVars, eventVars, resizedCount, resized,
                   updateResult, hist>>

\* lib.rs:273: self.take_root_console_ownership(api).
UpdateTakeSwap ==
    /\ TakeSwap("update_take", "update_take_insert")
    /\ UNCHANGED <<notCon, hist>>

UpdateTakeInsert ==
    /\ TakeInsert("update_take_insert", "pass_first")
    /\ UNCHANGED <<notCon, hist>>

\* PassFirst with the event queues updated twice in one primary pass.
PassFirstUpdatesTwice ==
    /\ pc = "pass_first"
    /\ fontEvents' = EventsUpdate(EventsUpdate(fontEvents))
    /\ exitEvents' = IF exitEvents = None THEN None ELSE Some(EventsUpdate(EventsUpdate(Unwrap(exitEvents))))
    /\ Goto("pass")
    /\ UNCHANGED <<conVars, apiScreen, settings, engineVars, fpsInfo, inputVars, schedVars,
                   stateVars, fontReader, exitReader, resizedCount, resized,
                   updateResult, hist>>

\* lib.rs:274: self.bevy_app.update().  The primary pass starts with the
\* First stage, where add_event (lib.rs:184-185, and App::build for AppExit)
\* has put Events::update_system of every event queue.
PassFirst ==
    /\ pc = "pass_first"
    /\ fontEvents' = EventsUpdate(fontEvents)
    /\ exitEvents' = IF exitEvents = None THEN None ELSE Some(EventsUpdate(Unwrap(exitEvents)))
    /\ Goto("pass")
    /\ UNCHANGED <<conVars, apiScreen, settings, engineVars, fpsInfo, inputVars, schedVars,
                   stateVars, fontReader, exitReader, resizedCount, resized,
                   updateResult, hist>>

\* A system of the primary pass draws on the console through ResMut<RootConsole>.
PassDraw(x) ==
    /\ pc = "pass"
    /\ rootConsole # None
    /\ Unwrap(rootConsole).content # x
    /\ rootConsole' = Some([Unwrap(rootConsole) EXCEPT !.content = x])
    /\ hist' = [hist EXCEPT !.mutated = TRUE]
    /\ UNCHANGED <<pc, fault, apiCon, swap_console, notCon>>

\* A system of the primary pass sends SetFontPath(path) (lib.rs:417-421).
PassSendFont(path) ==
    /\ pc = "pass"
    /\ fontEvents.count < MaxEvents
    /\ fontEvents' = EventsSend(fontEvents, path)
    /\ hist' = [hist EXCEPT !.fontPending = Append(@, path)]
    /\ UNCHANGED <<pc, fault, conVars, apiScreen, settings, engineVars, fpsInfo, inputVars,
                   schedVars, stateVars, fontReader, exitEvents, exitReader,
                   resizedCount, resized, updateResult>>

\* A system of the primary pass sends AppExit (examples/exit.rs:27-41).
PassSendExit ==
    /\ pc = "pass"
    /\ exitEvents # None
    /\ Unwrap(exitEvents).count < MaxEvents
    /\ exitEvents' = Some(EventsSend(Unwrap(exitEvents), "AppExit"))
    /\ hist' = [hist EXCEPT !.exitPending = @ + 1]
    /\ UNCHANGED <<pc, fault, conVars, apiScreen, settings, engineVars, fpsInfo, inputVars,
                   schedVars, stateVars, fontEvents, fontReader, exitReader,
                   resizedCount, resized, updateResult>>

\* A system writes the DoryenPluginSettings resource (lib.rs:144-153: the
\* fields are public) while the loop runs.
WriteSettings(at, s) ==
    /\ pc = at
    /\ settings # Some(s)
    /\ settings' = Some(s)
    /\ hist' = [hist EXCEPT !.settingsWritten = TRUE]
    /\ UNCHANGED <<pc, fault, conVars, apiScreen, engineVars, fpsInfo, inputVars, schedVars,
                   stateVars, eventVars, resizedCount, resized, updateResult>>

\* A system of the primary pass writes the settings.
PassWriteSettings(s) == WriteSettings("pass", s)

\* RenderState::state_updated (render_system.rs:43-45): self.0 = true.
StateUpdated(at) ==
    /\ pc = at
    /\ rs0' = TRUE
    /\ hist' = [hist EXCEPT !.marked = TRUE, !.everMarked = TRUE,
                            !.markedBetween = @ \/ at = "pass"]
    /\ UNCHANGED <<pc, fault, conVars, apiScreen, settings, engineVars, fpsInfo, inputVars,
                   schedVars, rs1, di, eventVars, resizedCount, resized, updateResult>>

\* A system of the primary pass calls state_updated.
PassStateUpdated == StateUpdated("pass")

\* The primary pass ends: bevy_app.update() returns.
PassEnd ==
    /\ pc = "pass"
    /\ Goto("update_restore")
    /\ UNCHANGED <<conVars, notCon, hist>>

\* lib.rs:275: self.restore_root_console_ownership(api).
UpdateRestoreTake ==
    /\ RestoreTake("update_restore", "update_restore_swap")
    /\ UNCHANGED <<notCon, hist>>

UpdateRestoreSwap ==
    /\ RestoreSwap("update_restore_swap", "update_font")
    /\ UNCHANGED <<notCon, hist>>

\* LatestFontPath with next() in place of last(): the oldest event not seen.
OldestFontPath(last, ev) ==
    IF ReaderIter(last, ev) = <<>> THEN None ELSE Some(Head(ReaderIter(last, ev)))

\* lib.rs:283-286: self.set_font_path_event_reader.iter(&events).last().
LatestFontPath(last, ev) == IterLast(ReaderIter(last, ev))

\* UpdateFont with a reader that does not advance.
UpdateFontKeepsReader ==
    /\ pc = "update_font"
    /\ LET doryen_set_font_path == LatestFontPath(fontReader, fontEvents)
       IN  hist' = [hist EXCEPT
                      !.fontCalls = IF doryen_set_font_path = None THEN @
                                    ELSE Append(@, Unwrap(doryen_set_font_path)),
                      !.fontSeen = hist.fontPending,
                      !.fontPending = <<>>]
    /\ fontReader' = fontReader
    /\ Goto("update_exit")
    /\ UNCHANGED <<conVars, apiScreen, settings, engineVars, fpsInfo, inputVars, schedVars,
                   stateVars, fontEvents, exitEvents, exitReader, resizedCount,
                   resized, updateResult>>

\* lib.rs:277-289: the latest SetFontPath event not seen yet, if there is
\* one, goes to api.set_font_path; the reader has then seen them all.
UpdateFont ==
    /\ pc = "update_font"
    /\ LET doryen_set_font_path == LatestFontPath(fontReader, fontEvents)
       IN  hist' = [hist EXCEPT
                      !.fontCalls = IF doryen_set_font_path = None THEN @
                                    ELSE Append(@, Unwrap(doryen_set_font_path)),
                      !.fontSeen = hist.fontPending,
                      !.fontPending = <<>>]
    /\ fontReader' = fontEvents.count
    /\ Goto("update_exit")
    /\ UNCHANGED <<conVars, apiScreen, settings, engineVars, fpsInfo, inputVars, schedVars,
                   stateVars, fontEvents, exitEvents, exitReader, resizedCount,
                   resized, updateResult>>

\* ExitRequested over the whole queue, seen or not.
ExitRequestedAny(last, ev) == ev.a \o ev.b # <<>>

\* lib.rs:292-296: self.app_exit_event_reader.iter(&events).last().is_some().
ExitRequested(last, ev) == IterLast(ReaderIter(last, ev)) # None

\* lib.rs:291-302: Some(UpdateEvent::Exit) when an AppExit event not seen yet
\* is in the queue, None otherwise, also when there is no such queue.
UpdateExit ==
    /\ pc = "update_exit"
    /\ IF exitEvents = None
       THEN updateResult' = "Continue" /\ exitReader' = exitReader
       ELSE /\ updateResult' = IF ExitRequested(exitReader, Unwrap(exitEvents))
                               THEN "Exit" ELSE "Continue"
            /\ exitReader' = Unwrap(exitEvents).count
    /\ hist' = [hist EXCEPT !.exitSeen = hist.exitPending, !.exitPending = 0,
                            !.renderExitSeen = hist.renderExitPending,
                            !.renderExitPending = FALSE]
    /\ Goto("loop")
    /\ UNCHANGED <<conVars, apiScreen, settings, engineVars, fpsInfo, inputVars, schedVars,
                   stateVars, fontEvents, fontReader, exitEvents, resizedCount, resized>>


(***************************************************************************)
(* RenderSystemExtensions for AppBuilder (render_system.rs:158-208).       *)
(***************************************************************************)
\* The stage labels a registration may name: the five render stages and a
\* stage of another schedule (CoreStage::Update), which this one does not have.
StageLabels == RenderStages \cup {"Update"}

\* The n systems registered next, numbered in registration order.
NewSystems(n) == [i \in 1..n |-> nextSystem + i - 1]

\* The systems the schedule holds so far, the drivers of states among them.
RegisteredSystems == nextSystem - 1

\* Schedule::add_system_to_stage / add_system_set_to_stage: the systems join
\* the stage's list; a label that is no stage of the schedule panics.
AddToStage(label, n) ==
    /\ pc = "build"
    /\ IF label \notin RenderStages \/ renderSystems = None
       THEN /\ Panic("add_system_to_stage: no such stage")
            /\ UNCHANGED <<renderSystems, nextSystem>>
       ELSE /\ renderSystems' =
                 Some([Unwrap(renderSystems) EXCEPT !.systems[label] = @ \o NewSystems(n)])
            /\ nextSystem' = nextSystem + n
            /\ Goto("build")
    /\ UNCHANGED <<conVars, apiScreen, settings, engineVars, fpsInfo, inputVars,
                   doryen_render_schedule, stageIdx, ranLog, rs0, di, eventVars,
                   resizedCount, resized, updateResult>>

\* render_system.rs:159-165.
AddDoryenRenderSystem ==
    /\ RegisteredSystems + 1 <= MaxSystems
    /\ AddToStage("Render", 1)
    /\ rs1' = rs1
    /\ hist' = [hist EXCEPT !.unnamed = @ \cup SeqRange(NewSystems(1))]

\* render_system.rs:167-177.
AddDoryenRenderSystemToStage(stage_label) ==
    /\ RegisteredSystems + 1 <= MaxSystems
    /\ AddToStage(stage_label, 1)
    /\ rs1' = rs1
    /\ hist' = hist

\* render_system.rs:179-185: a system set of n systems.
AddDoryenRenderSystemSet(n) ==
    /\ RegisteredSystems + n <= MaxSystems
    /\ AddToStage("Render", n)
    /\ rs1' = rs1
    /\ hist' = [hist EXCEPT !.unnamed = @ \cup SeqRange(NewSystems(n))]

\* render_system.rs:187-197.
AddDoryenRenderSystemSetToStage(stage_label, n) ==
    /\ RegisteredSystems + n <= MaxSystems
    /\ AddToStage(stage_label, n)
    /\ rs1' = rs1
    /\ hist' = hist

\* render_system.rs:199-207: the callback of State<T> joins RenderState.1 and
\* the driver of State<T> joins the Render stage.
AddDoryenRenderState ==
    /\ Len(rs1) < MaxDrivers
    /\ RegisteredSystems + 1 <= MaxSystems
    /\ rs1' = Append(rs1, Len(rs1) + 1)
    /\ AddToStage("Render", 1)
    /\ hist' = hist

(***************************************************************************)
(* Engine::render (lib.rs:305-324).                                        *)
(***************************************************************************)
\* lib.rs:306: self.take_root_console_ownership(api).
RenderTakeSwap ==
    /\ TakeSwap("loop", "render_take_insert")
    /\ hist' = [hist EXCEPT !.call = "render"]
    /\ UNCHANGED notCon

RenderTakeInsert ==
    /\ TakeInsert("render_take_insert", "render_state")
    /\ UNCHANGED <<notCon, hist>>

\* RenderCheckFlag without the test of the flag: the drivers run in every pass.
RenderCheckFlagAlways ==
    /\ pc = "render_state"
    /\ di' = 0
    /\ Goto("render_drivers")
    /\ hist' = [hist EXCEPT !.flagAtStart = rs0, !.driverLog = <<>>,
                            !.markedAtCheck = hist.marked, !.marked = FALSE,
                            !.renders = IF @ < 2 THEN @ + 1 ELSE @]
    /\ UNCHANGED <<conVars, apiScreen, settings, engineVars, fpsInfo, inputVars, schedVars,
                   rs0, rs1, eventVars, resizedCount, resized, updateResult>>

\* lib.rs:310: if rs.0 { .. }.
RenderCheckFlag ==
    /\ pc = "render_state"
    /\ di' = 0
    /\ Goto(IF rs0 THEN "render_drivers" ELSE "render_schedule")
    /\ hist' = [hist EXCEPT !.flagAtStart = rs0, !.driverLog = <<>>,
                            !.markedAtCheck = hist.marked, !.marked = FALSE,
                            !.renders = IF @ < 2 THEN @ + 1 ELSE @]
    /\ UNCHANGED <<conVars, apiScreen, settings, engineVars, fpsInfo, inputVars, schedVars,
                   rs0, rs1, eventVars, resizedCount, resized, updateResult>>

\* lib.rs:311-313: for f in &rs.1 { f(&wc); }.
RenderCallDriver ==
    /\ pc = "render_drivers"
    /\ di < Len(rs1)
    /\ di' = di + 1
    /\ hist' = [hist EXCEPT !.driverLog = Append(@, rs1[di + 1])]
    /\ UNCHANGED <<pc, fault, conVars, apiScreen, settings, engineVars, fpsInfo, inputVars,
                   schedVars, rs0, rs1, eventVars, resizedCount, resized, updateResult>>

\* RenderClearFlag leaving the flag as it is.
RenderClearFlagSkipped ==
    /\ pc = "render_drivers"
    /\ di = Len(rs1)
    /\ Goto("render_schedule")
    /\ UNCHANGED <<conVars, apiScreen, settings, engineVars, fpsInfo, inputVars, schedVars,
                   stateVars, eventVars, resizedCount, resized, updateResult, hist>>

\* lib.rs:314: rs.0 = false.
RenderClearFlag ==
    /\ pc = "render_drivers"
    /\ di = Len(rs1)
    /\ rs0' = FALSE
    /\ Goto("render_schedule")
    /\ UNCHANGED <<conVars, apiScreen, settings, engineVars, fpsInfo, inputVars, schedVars,
                   rs1, di, eventVars, resizedCount, resized, updateResult, hist>>

\* TakeSchedule with a copy in place of the take: the slot keeps the schedule.
TakeScheduleCopy(from, to) ==
    /\ pc = from
    /\ IF renderSystems = None
       THEN /\ Panic("take_doryen_render_schedule: the slot is empty")
            /\ UNCHANGED <<renderSystems, doryen_render_schedule, stageIdx>>
       ELSE /\ doryen_render_schedule' = renderSystems
            /\ renderSystems' = renderSystems
            /\ stageIdx' = 1
            /\ Goto(to)

\* take_doryen_render_schedule (lib.rs:236-244): doryen_render_systems.0.take().unwrap().
TakeSchedule(from, to) ==
    /\ pc = from
    /\ IF renderSystems = None
       THEN /\ Panic("take_doryen_render_schedule: the slot is empty")
            /\ UNCHANGED <<renderSystems, doryen_render_schedule, stageIdx>>
       ELSE /\ doryen_render_schedule' = renderSystems
            /\ renderSystems' = None
            /\ stageIdx' = 1
            /\ Goto(to)

\* lib.rs:319.
RenderTakeSchedule ==
    /\ TakeSchedule("render_schedule", "render_run")
    /\ ranLog' = <<>>
    /\ UNCHANGED <<conVars, apiScreen, settings, engineVars, fpsInfo, inputVars, nextSystem,
                   stateVars, eventVars, resizedCount, resized, updateResult, hist>>

\* The systems of the running stage that have run in this pass.
RanInStage(stage) == {ranLog[i][2] : i \in {j \in 1..Len(ranLog) : ranLog[j][1] = stage}}

\* SystemStage::run: the systems of a stage that may run next.  The stage
\* orders its systems by their before/after labels alone; systems registered
\* without labels, as all here are, have no defined order among them.
NextInStage(stageSystems, ran) == SeqRange(stageSystems) \ ran

\* lib.rs:320: Schedule::run, one system of the running stage.
RunSystem(system) ==
    /\ pc = "render_run"
    /\ stageIdx <= Len(Unwrap(doryen_render_schedule).order)
    /\ LET schedule == Unwrap(doryen_render_schedule)
           stage == schedule.order[stageIdx]
       IN  /\ system \in NextInStage(schedule.systems[stage], RanInStage(stage))
           /\ ranLog' = Append(ranLog, <<stage, system>>)
    /\ UNCHANGED <<pc, fault, conVars, apiScreen, settings, engineVars, fpsInfo, inputVars,
                   renderSystems, doryen_render_schedule, stageIdx, nextSystem,
                   stateVars, eventVars, resizedCount, resized, updateResult, hist>>

\* lib.rs:320: Schedule::run, the running stage is done: on to the next
\* stage of the stage order, or out of the schedule after the last.
StageDone ==
    /\ pc = "render_run"
    /\ LET schedule == Unwrap(doryen_render_schedule)
           stage == schedule.order[stageIdx]
       IN  /\ NextInStage(schedule.systems[stage], RanInStage(stage)) = {}
           /\ Goto(IF stageIdx = Len(schedule.order)
                   THEN "render_restore_schedule" ELSE "render_run")
    /\ stageIdx' = stageIdx + 1
    /\ UNCHANGED <<conVars, apiScreen, settings, engineVars, fpsInfo, inputVars, renderSystems,
                   doryen_render_schedule, ranLog, nextSystem, stateVars, eventVars,
                   resizedCount, resized, updateResult, hist>>

\* A system of the render schedule draws on the console (examples/exit.rs:43-64).
RenderDraw(x) ==
    /\ pc = "render_run"
    /\ ranLog # <<>>
    /\ rootConsole # None
    /\ Unwrap(rootConsole).content # x
    /\ rootConsole' = Some([Unwrap(rootConsole) EXCEPT !.content = x])
    /\ hist' = [hist EXCEPT !.mutated = TRUE]
    /\ UNCHANGED <<pc, fault, apiCon, swap_console, notCon>>

\* A system of the render schedule calls state_updated.
RenderStateUpdated ==
    /\ ranLog # <<>>
    /\ StateUpdated("render_run")

\* A system of the render schedule writes the settings.
RenderWriteSettings(s) ==
    /\ ranLog # <<>>
    /\ WriteSettings("render_run", s)

\* A system of the render schedule sends AppExit.
RenderSendExit ==
    /\ pc = "render_run"
    /\ ranLog # <<>>
    /\ exitEvents # None
    /\ Unwrap(exitEvents).count < MaxEvents
    /\ exitEvents' = Some(EventsSend(Unwrap(exitEvents), "AppExit"))
    /\ hist' = [hist EXCEPT !.exitPending = @ + 1, !.renderExitPending = TRUE]
    /\ UNCHANGED <<pc, fault, conVars, apiScreen, settings, engineVars, fpsInfo, inputVars,
                   schedVars, stateVars, fontEvents, fontReader, exitReader,
                   resizedCount, resized, updateResult>>

\* A system of the render schedule sends SetFontPath(path).
RenderSendFont(path) ==
    /\ pc = "render_run"
    /\ ranLog # <<>>
    /\ fontEvents.count < MaxEvents
    /\ fontEvents' = EventsSend(fontEvents, path)
    /\ hist' = [hist EXCEPT !.fontPending = Append(@, path)]
    /\ UNCHANGED <<pc, fault, conVars, apiScreen, settings, engineVars, fpsInfo, inputVars,
                   schedVars, stateVars, fontReader, exitEvents, exitReader,
                   resizedCount, resized, updateResult>>

\* take_doryen_render_schedule called again while the schedule runs.
NestedTakeSchedule ==
    /\ ranLog # <<>>
    /\ TakeSchedule("render_run", "render_run")
    /\ hist' = [hist EXCEPT !.nestedTake = TRUE]
    /\ UNCHANGED <<conVars, apiScreen, settings, engineVars, fpsInfo, inputVars, ranLog,
                   nextSystem, stateVars, eventVars, resizedCount, resized,
                   updateResult>>

\* RenderRestoreSchedule clearing the dirty flag after the schedule has run.
RenderRestoreScheduleClearsFlag ==
    /\ pc = "render_restore_schedule"
    /\ renderSystems' = doryen_render_schedule
    /\ doryen_render_schedule' = None
    /\ rs0' = FALSE
    /\ Goto("render_restore")
    /\ UNCHANGED <<conVars, apiScreen, settings, engineVars, fpsInfo, inputVars, stageIdx,
                   ranLog, nextSystem, rs1, di, eventVars, resizedCount, resized,
                   updateResult, hist>>

\* RenderRestoreSchedule dropping the schedule instead of putting it back.
RenderRestoreScheduleSkipped ==
    /\ pc = "render_restore_schedule"
    /\ renderSystems' = renderSystems
    /\ doryen_render_schedule' = None
    /\ Goto("render_restore")
    /\ UNCHANGED <<conVars, apiScreen, settings, engineVars, fpsInfo, inputVars, stageIdx,
                   ranLog, nextSystem, stateVars, eventVars, resizedCount, resized,
                   updateResult, hist>>

\* restore_doryen_render_schedule (lib.rs:246-254, 321):
\*   doryen_render_systems.0.replace(doryen_render_schedule).
RenderRestoreSchedule ==
    /\ pc = "render_restore_schedule"
    /\ renderSystems' = doryen_render_schedule
    /\ doryen_render_schedule' = None
    /\ Goto("render_restore")
    /\ UNCHANGED <<conVars, apiScreen, settings, engineVars, fpsInfo, inputVars, stageIdx,
                   ranLog, nextSystem, stateVars, eventVars, resizedCount, resized,
                   updateResult, hist>>

\* lib.rs:323: self.restore_root_console_ownership(api).
RenderRestoreTake ==
    /\ RestoreTake("render_restore", "render_restore_swap")
    /\ UNCHANGED <<notCon, hist>>

RenderRestoreSwap ==
    /\ RestoreSwap("render_restore_swap", "loop")
    /\ hist' = [hist EXCEPT !.markedBetween = FALSE]
    /\ UNCHANGED notCon


(***************************************************************************)
(* Engine::resize (lib.rs:326-368).                                        *)
(***************************************************************************)
\* ResizedEvent with the new size in both halves.
ResizedEventNewOnly(previous_screen, new_screen) ==
    [previous_width |-> new_screen[1], previous_height |-> new_screen[2],
     new_width |-> new_screen[1], new_height |-> new_screen[2]]

\* lib.rs:335-340: Resized { previous_width, previous_height, new_width, new_height }.
ResizedEvent(previous_screen, new_screen) ==
    [previous_width |-> previous_screen[1], previous_height |-> previous_screen[2],
     new_width |-> new_screen[1], new_height |-> new_screen[2]]

\* lib.rs:327-342: the host loop's screen has the size new_size; the Resized
\* event of this call is built from the recorded and the new size, and sent.
ResizeSend(new_size) ==
    /\ pc = "loop"
    /\ resizedCount < MaxResizes
    /\ apiScreen' = new_size
    /\ resized' = Some(ResizedEvent(previous_screen_size, new_size))
    /\ resizedCount' = resizedCount + 1
    /\ Goto("resize_policy")
    /\ hist' = [hist EXCEPT !.call = "resize",
                            !.resizeCalls = @ + 1,
                            !.prevResized = resized,
                            !.callbackArgs = None,
                            !.callbackOut = None,
                            !.resizeIn = Some([screen |-> previous_screen_size,
                                               console |-> previous_console_size,
                                               con |-> apiCon])]
    /\ UNCHANGED <<conVars, settings, engineVars, fpsInfo, inputVars, schedVars, stateVars,
                   eventVars, updateResult>>

\* The policy of the settings resource as it is now.
EngineResizeModeFromResource == Unwrap(settings).resize_mode

\* lib.rs:344: match self.resize_mode.
EngineResizeMode == resize_mode

\* ResizeNothing taking the console as the Callback branch does.
ResizeNothingTakes ==
    /\ EngineResizeMode = "Nothing"
    /\ TakeSwap("resize_policy", "resize_take_insert")
    /\ UNCHANGED <<notCon, hist>>

\* lib.rs:345: ResizeMode::Nothing => ().
ResizeNothing ==
    /\ pc = "resize_policy"
    /\ EngineResizeMode = "Nothing"
    /\ Goto("resize_record")
    /\ UNCHANGED <<conVars, notCon, hist>>

\* AutomaticSize scaling the console by the growth of the screen.
AutomaticSizeScaled(previous_screen, previous_console, new_screen) ==
    <<previous_console[1] * (new_screen[1] \div previous_screen[1]),
      previous_console[2] * (new_screen[2] \div previous_screen[2])>>

\* lib.rs:347-353: the new console size of the Automatic policy; u32 division
\* truncates.
AutomaticSize(previous_screen, previous_console, new_screen) ==
    LET w_ratio == previous_screen[1] \div previous_console[1]
        h_ratio == previous_screen[2] \div previous_console[2]
    IN  <<new_screen[1] \div w_ratio, new_screen[2] \div h_ratio>>

\* lib.rs:349-353: whether one of the four divisions divides by zero.
AutomaticDividesByZero(previous_screen, previous_console) ==
    \/ previous_console[1] = 0
    \/ previous_console[2] = 0
    \/ previous_screen[1] \div previous_console[1] = 0
    \/ previous_screen[2] \div previous_console[2] = 0

\* lib.rs:346-355: ResizeMode::Automatic.
ResizeAutomatic ==
    /\ pc = "resize_policy"
    /\ EngineResizeMode = "Automatic"
    /\ LET r == Unwrap(resized)
           new_screen == <<r.new_width, r.new_height>>
           previous_screen == <<r.previous_width, r.previous_height>>
       IN  IF AutomaticDividesByZero(previous_screen, previous_console_size)
           THEN Panic("attempt to divide by zero") /\ apiCon' = apiCon
           ELSE LET size == AutomaticSize(previous_screen, previous_console_size, new_screen)
                IN  /\ apiCon' = ConsoleResize(apiCon, size[1], size[2])
                    /\ Goto("resize_record")
    /\ UNCHANGED <<rootConsole, swap_console, notCon, hist>>

\* lib.rs:357: self.take_root_console_ownership(api).
ResizeTakeSwap ==
    /\ EngineResizeMode = "Callback"
    /\ TakeSwap("resize_policy", "resize_take_insert")
    /\ UNCHANGED <<notCon, hist>>

ResizeTakeInsert ==
    /\ TakeInsert("resize_take_insert", "resize_callback")
    /\ UNCHANGED <<notCon, hist>>

\* lib.rs:358-361: callback(&mut RootConsole, resized).  The callback may
\* resize the console it is given, to the new screen size in cells of
\* cell pixels, and draw on it.
ResizeCallback(cell, x) ==
    /\ pc = "resize_callback"
    /\ rootConsole # None
    /\ LET r == Unwrap(resized)
       IN  rootConsole' = Some([ConsoleResize(Unwrap(rootConsole),
                                              r.new_width \div cell,
                                              r.new_height \div cell)
                                EXCEPT !.content = x])
    /\ Goto("resize_restore")
    /\ hist' = [hist EXCEPT !.mutated = TRUE,
                            !.callbackArgs = Some([con |-> Unwrap(rootConsole),
                                                   event |-> Unwrap(resized)]),
                            !.callbackOut = Some(<<Unwrap(resized).new_width \div cell,
                                                   Unwrap(resized).new_height \div cell>>)]
    /\ UNCHANGED <<apiCon, swap_console, notCon>>

\* A callback that leaves the console as it is.
ResizeCallbackIdle ==
    /\ pc = "resize_callback"
    /\ rootConsole # None
    /\ Goto("resize_restore")
    /\ hist' = [hist EXCEPT !.callbackArgs = Some([con |-> Unwrap(rootConsole),
                                                   event |-> Unwrap(resized)]),
                            !.callbackOut = Some(ConsoleSize(Unwrap(rootConsole)))]
    /\ UNCHANGED <<conVars, notCon>>

\* lib.rs:362: self.restore_root_console_ownership(api).
ResizeRestoreTake ==
    /\ RestoreTake("resize_restore", "resize_restore_swap")
    /\ UNCHANGED <<notCon, hist>>

ResizeRestoreSwap ==
    /\ RestoreSwap("resize_restore_swap", "resize_record")
    /\ UNCHANGED <<notCon, hist>>

\* ResizeRecord keeping the console size it had recorded before.
ResizeRecordStale ==
    /\ pc = "resize_record"
    /\ previous_screen_size' = <<Unwrap(resized).new_width, Unwrap(resized).new_height>>
    /\ previous_console_size' = previous_console_size
    /\ Goto("loop")
    /\ UNCHANGED <<conVars, apiScreen, settings, mouse_button_listeners, resize_mode,
                   fpsInfo, inputVars, schedVars, stateVars, eventVars, resizedCount, resized,
                   updateResult, hist>>

\* lib.rs:366-367: the sizes the next resize starts from.
ResizeRecord ==
    /\ pc = "resize_record"
    /\ previous_screen_size' = <<Unwrap(resized).new_width, Unwrap(resized).new_height>>
    /\ previous_console_size' = ConsoleSize(apiCon)
    /\ Goto("loop")
    /\ UNCHANGED <<conVars, apiScreen, settings, mouse_button_listeners, resize_mode,
                   fpsInfo, inputVars, schedVars, stateVars, eventVars, resizedCount, resized,
                   updateResult, hist>>


(***************************************************************************)
(* Specifications.  Every one starts from Init and runs the callbacks as   *)
(* the host loop calls them, one at a time, each to its end; they differ   *)
(* in what the application registers and in what its systems do.           *)
(***************************************************************************)
\* The steps of update, render and resize that the engine itself takes.
UpdateSteps ==
    \/ UpdateInput
    \/ UpdateTakeSwap
    \/ UpdateTakeInsert
    \/ PassFirst
    \/ PassEnd
    \/ UpdateRestoreTake
    \/ UpdateRestoreSwap
    \/ UpdateFont
    \/ UpdateExit

RenderSteps ==
    \/ RenderTakeSwap
    \/ RenderTakeInsert
    \/ RenderCheckFlag
    \/ RenderCallDriver
    \/ RenderClearFlag
    \/ RenderTakeSchedule
    \/ \E system \in 1..(nextSystem - 1) : RunSystem(system)
    \/ StageDone
    \/ RenderRestoreSchedule
    \/ RenderRestoreTake
    \/ RenderRestoreSwap

ResizeSteps ==
    \/ ResizeNothing
    \/ ResizeAutomatic
    \/ ResizeTakeSwap
    \/ ResizeTakeInsert
    \/ ResizeCallbackIdle
    \/ ResizeRestoreTake
    \/ ResizeRestoreSwap
    \/ ResizeRecord

\* The whole bridge: an application with render systems and a state driver,
\* whose systems draw on the console, under each resize policy.
Next ==
    \/ \E s \in StartupSettings({ExampleAppOptions}, ResizeModes) : InsertSettings(s)
    \/ AddDoryenRenderSystem
    \/ AddDoryenRenderState
    \/ Runner
    \/ UpdateFps(60, 60)
    \/ UpdateSteps
    \/ \E x \in Contents : PassDraw(x)
    \/ RenderSteps
    \/ \E x \in Contents : RenderDraw(x)
    \/ \E size \in {<<1600, 600>>, <<850, 470>>} : ResizeSend(size)
    \/ ResizeSteps
    \/ \E x \in Contents : ResizeCallback(8, x)

Spec == Init /\ [][Next]_vars

\* The render schedule: systems and system sets registered to the stages in
\* any order, then render passes.
NextSchedule ==
    \/ AddDoryenRenderSystem
    \/ \E l \in StageLabels : AddDoryenRenderSystemToStage(l)
    \/ \E n \in 1..MaxSystems : AddDoryenRenderSystemSet(n)
    \/ \E l \in StageLabels, n \in 1..MaxSystems : AddDoryenRenderSystemSetToStage(l, n)
    \/ AddDoryenRenderState
    \/ Runner
    \/ RenderSteps
    \/ NestedTakeSchedule

SpecSchedule == Init /\ [][NextSchedule]_vars

\* The render state: state drivers registered, and systems of both passes
\* calling state_updated.
NextRenderState ==
    \/ AddDoryenRenderSystem
    \/ AddDoryenRenderState
    \/ Runner
    \/ UpdateFps(60, 60)
    \/ UpdateSteps
    \/ PassStateUpdated
    \/ RenderSteps
    \/ RenderStateUpdated

SpecRenderState == Init /\ [][NextRenderState]_vars

\* The font queue: systems of the primary pass and of the render schedule
\* sending SetFontPath events.
NextFont ==
    \/ AddDoryenRenderSystem
    \/ AddDoryenRenderState
    \/ Runner
    \/ UpdateFps(60, 60)
    \/ UpdateSteps
    \/ \E path \in FontPaths : PassSendFont(path)
    \/ RenderSteps
    \/ \E path \in FontPaths : RenderSendFont(path)

SpecFont == Init /\ [][NextFont]_vars

\* The exit queue: systems of the primary pass and of the render schedule
\* sending AppExit events.
NextExit ==
    \/ AddDoryenRenderSystem
    \/ AddDoryenRenderState
    \/ Runner
    \/ UpdateFps(60, 60)
    \/ UpdateSteps
    \/ PassSendExit
    \/ RenderSteps
    \/ RenderSendExit

SpecExit == Init /\ [][NextExit]_vars

\* Resizing: every new screen size under every policy, and under the
\* Automatic policy, the one that computes with them, every startup sizes.
NextResize ==
    \/ \E s \in StartupSettings(SmallAppOptions, {"Automatic"})
                 \cup StartupSettings({ExampleAppOptions}, ResizeModes) :
          InsertSettings(s)
    \/ Runner
    \/ \E size \in ScreenSizes : ResizeSend(size)
    \/ ResizeSteps
    \/ \E cell \in {1, 8} : ResizeCallback(cell, 1)

SpecResize == Init /\ [][NextResize]_vars

\* The settings: any settings inserted, or none, before the loop starts, and
\* systems of both passes writing the resource afterwards.
NextSettings ==
    \/ \E s \in AnySettings : InsertSettings(s)
    \/ AddDoryenRenderState
    \/ Runner
    \/ UpdateFps(60, 60)
    \/ UpdateSteps
    \/ \E s \in AnySettings : PassWriteSettings(s)
    \/ RenderSteps
    \/ \E s \in AnySettings : RenderWriteSettings(s)
    \/ ResizeSend(<<1600, 600>>)
    \/ ResizeSteps

SpecSettings == Init /\ [][NextSettings]_vars

\* The input: any listener list configured, any snapshot polled between two
\* update calls.
NextInput ==
    \/ \E s \in AnySettings : InsertSettings(s)
    \/ Runner
    \/ \E snapshot \in InputSnapshots : PollInput(snapshot)
    \/ UpdateFps(60, 60)
    \/ UpdateSteps

SpecInput == Init /\ [][NextInput]_vars

\* The update call: ticks with different fps values and snapshots, a primary
\* pass whose systems draw and send SetFontPath and AppExit events, with and
\* without the AppExit queue.
NextUpdate ==
    \/ AppBuilderEmpty
    \/ Runner
    \/ \E snapshot \in {NoInput, [keys |-> {"Escape"}, mouse |-> {"Left"},
                                   close_requested |-> FALSE]} : PollInput(snapshot)
    \/ \E fps \in {30, 60} : UpdateFps(fps, 60)
    \/ UpdateSteps
    \/ \E x \in Contents : PassDraw(x)
    \/ \E path \in FontPaths : PassSendFont(path)
    \/ PassSendExit

SpecUpdate == Init /\ [][NextUpdate]_vars

\* The host loop: update, render and resize calls in any order, under each
\* resize policy, with a primary pass that may ask for the exit.
NextLoop ==
    \/ \E s \in StartupSettings({ExampleAppOptions}, ResizeModes) : InsertSettings(s)
    \/ AddDoryenRenderState
    \/ Runner
    \/ UpdateFps(60, 60)
    \/ UpdateSteps
    \/ PassSendExit
    \/ RenderSteps
    \/ ResizeSend(<<1600, 600>>)
    \/ ResizeSteps
    \/ ResizeCallback(8, 1)

SpecLoop == Init /\ [][NextLoop]_vars


(***************************************************************************)
(* Properties.                                                             *)
(***************************************************************************)
\* The places that hold the loop's own console.
RealIn(slot) == slot # None /\ Unwrap(slot).real

Holders ==
    (IF apiCon.real THEN 1 ELSE 0)
    + (IF RealIn(rootConsole) THEN 1 ELSE 0)
    + (IF RealIn(swap_console) THEN 1 ELSE 0)

\* C1: once the loop runs, whatever update, render and resize callbacks have
\* run and wherever the running one stands, the real console is in exactly
\* one of the loop's slot, the RootConsole resource and the engine's swap
\* slot; the loop's slot always holds a console, and it holds the
\* placeholder whenever it does not hold the real one, as it does all the
\* time the resource holds the console.
C1_OneHolder ==
    pc # "build" =>
        /\ Holders = 1
        /\ apiCon # None
        /\ apiCon.real \/ apiCon = PlaceholderConsole
        /\ rootConsole # None => apiCon = PlaceholderConsole /\ RealIn(rootConsole)

\* The restore of a render pass whose systems drew on the console has moved
\* the real console from the resource into the swap slot.
C1_Witness ==
    /\ pc = "render_restore_swap"
    /\ RealIn(swap_console)
    /\ rootConsole = None
    /\ hist.mutated

\* C2: after any number n >= 1 of take/restore pairs with no write to the
\* console, the loop's slot holds the console it held before the first take,
\* same content and size, and the swap slot holds the placeholder.
C2_RoundTrip ==
    (pc = "loop" /\ hist.pairs >= 1 /\ hist.call = "restore" /\ ~hist.mutated) =>
        /\ Some(apiCon) = hist.snap
        /\ swap_console = Some(PlaceholderConsole)
        /\ rootConsole = None

\* Two pairs are done and nobody drew.
C2_Witness ==
    /\ pc = "loop"
    /\ hist.pairs = 2
    /\ hist.call = "restore"
    /\ ~hist.mutated
    /\ apiCon.real

\* C3: a second take with no restore since the first ends in the panic of
\* take's unwrap, and there the real console is in the RootConsole resource
\* alone, the loop's slot holds the placeholder and the swap slot is empty.
C3_DoubleTake ==
    hist.takesOpen >= 2 =>
        /\ pc = "fault"
        /\ fault = "take: swap_console is None"
        /\ RealIn(rootConsole)
        /\ Holders = 1
        /\ apiCon = PlaceholderConsole
        /\ swap_console = None

\* The second take has been called, on a console a system had drawn on.
C3_Witness ==
    /\ hist.takesOpen = 2
    /\ pc = "fault"
    /\ hist.mutated


\* The positions of render after it has looked at the dirty flag, and those
\* after the driver callbacks.
AfterDrivers ==
    {"render_schedule", "render_run", "render_restore_schedule", "render_restore",
     "render_restore_swap", "loop"}

AfterCheck == AfterDrivers \cup {"render_drivers"}

InRender(positions) == hist.call = "render" /\ pc \in positions

\* C4 as claimed: a render call that finds the flag set calls every driver
\* exactly once and returns with the flag false, and a further render call
\* with no state_updated call between the two calls no driver.
C4_Original ==
    /\ (InRender({"loop"}) /\ hist.flagAtStart) => (hist.driverLog = rs1 /\ ~rs0)
    /\ (InRender(AfterCheck) /\ hist.renders >= 2 /\ ~hist.markedBetween) =>
           hist.driverLog = <<>>

\* C4, amended: a render call that finds the flag set calls every registered
\* driver exactly once, in the order of registration, and the flag is false
\* when the render schedule starts; from then to the return of the call the
\* flag is set exactly if a system of the render schedule has called
\* state_updated.  A render call that finds the flag clear, as a further
\* call does when state_updated was not called since the flag was looked
\* at, calls no driver.
C4_DriversOncePerDirtyPass ==
    /\ (InRender(AfterDrivers) /\ hist.flagAtStart) => hist.driverLog = rs1
    /\ InRender({"render_schedule"}) => ~rs0
    /\ InRender(AfterDrivers) => (rs0 <=> hist.marked)
    /\ (InRender(AfterCheck) /\ ~hist.flagAtStart) => hist.driverLog = <<>>
    /\ (InRender(AfterCheck) /\ hist.renders >= 2 /\ ~hist.markedAtCheck) =>
           hist.driverLog = <<>>

\* A second render call has returned: it found the flag set, called both
\* drivers and left the flag clear.
C4_Witness ==
    /\ InRender({"loop"})
    /\ hist.renders = 2
    /\ hist.flagAtStart
    /\ Len(rs1) = 2
    /\ hist.driverLog = rs1
    /\ ~rs0

\* C5 as claimed: drivers are called in a render pass only after a call of
\* state_updated since the previous pass, or since startup in the first.
C5_Original ==
    (InRender(AfterCheck) /\ hist.driverLog # <<>>) => hist.markedAtCheck

\* C5, amended: drivers are called in a render pass only if the flag is set
\* when the pass looks at it.  The flag is set at startup, so the first
\* render pass calls them with no state_updated call at all; from the second
\* pass on the flag is set exactly if state_updated was called since the
\* previous pass looked at the flag.
C5_DriversOnlyWhenDirty ==
    InRender(AfterCheck) =>
        /\ hist.driverLog # <<>> => hist.flagAtStart
        /\ hist.flagAtStart <=> (hist.renders = 1 \/ hist.markedAtCheck)

\* A second render pass calls the drivers after a state_updated call.
C5_Witness ==
    /\ InRender({"render_schedule"})
    /\ hist.renders = 2
    /\ hist.markedAtCheck
    /\ hist.driverLog # <<>>

\* The stage order the claims name.
ClaimedStageOrder == <<"First", "PreRender", "Render", "PostRender", "Last">>

StagePosition(stage) == CHOOSE i \in 1..Len(ClaimedStageOrder) : ClaimedStageOrder[i] = stage

RECURSIVE InRegistrationOrder(_, _)
\* The <<stage, system>> pairs of a pass that runs the stages in the given
\* order and the systems of a stage in the order of their registration.
InRegistrationOrder(schedule, stages) ==
    IF stages = <<>> THEN <<>>
    ELSE [i \in 1..Len(schedule.systems[Head(stages)]) |->
             <<Head(stages), schedule.systems[Head(stages)][i]>>]
         \o InRegistrationOrder(schedule, Tail(stages))

C7_ScheduleCheckedOut ==
    /\ pc = "render_run" => renderSystems = None /\ doryen_render_schedule # None
    /\ hist.nestedTake =>
          /\ pc = "fault"
          /\ fault = "take_doryen_render_schedule: the slot is empty"
          /\ Cardinality(SeqRange(ranLog)) = Len(ranLog)
    /\ InRender({"loop"}) =>
          /\ renderSystems # None
          /\ doryen_render_schedule = None
          /\ Unwrap(renderSystems).order = ClaimedStageOrder
          /\ \A system \in 1..(nextSystem - 1) :
                \E stage \in RenderStages :
                    system \in SeqRange(Unwrap(renderSystems).systems[stage])

\* The schedule was asked for again after its first system had run.
C7_Witness ==
    /\ hist.nestedTake
    /\ pc = "fault"
    /\ Len(ranLog) >= 1


\* update has made its font check, or has returned.
AfterFontCheck == hist.call = "update" /\ pc \in {"update_exit", "loop"}

\* C8: when two or more SetFontPath events are pending at the font check of
\* an update call, set_font_path is called once in that call, with the path
\* of the event sent last; an update call applies nothing but the last of
\* the events sent since the previous check, so an older one is applied
\* neither in this call nor later.
C8_LatestFontOnly ==
    AfterFontCheck =>
        /\ Len(hist.fontSeen) >= 2 => hist.fontCalls = <<hist.fontSeen[Len(hist.fontSeen)]>>
        /\ hist.fontSeen # <<>> => hist.fontCalls = <<hist.fontSeen[Len(hist.fontSeen)]>>
        /\ hist.fontSeen = <<>> => hist.fontCalls = <<>>

\* Two events with different paths were pending, and the later one was applied.
C8_Witness ==
    /\ AfterFontCheck
    /\ hist.fontSeen = <<"f1", "f2">>
    /\ hist.fontCalls = <<"f2">>

\* C9: update returns Exit exactly if an AppExit event was sent since the
\* previous exit check, however many were; they are all consumed, and an
\* update call with no new AppExit event returns Continue.
C9_ExitOnce ==
    (hist.call = "update" /\ pc = "loop") =>
        /\ hist.exitSeen >= 1 => updateResult = "Exit"
        /\ hist.exitSeen = 0 => updateResult = "Continue"

\* An update call returns Continue after an earlier one consumed two AppExit events.
C9_Witness ==
    /\ hist.call = "update"
    /\ pc = "loop"
    /\ exitReader >= 2
    /\ hist.exitSeen = 0
    /\ updateResult = "Continue"

\* The Automatic policy has resized the console and resize has yet to record
\* the new sizes.
AutomaticDone == pc = "resize_record" /\ resize_mode = "Automatic"

StartupRatio ==
    LET o == Unwrap(hist.startup).app_options
    IN  <<o.screen_width \div o.console_width, o.screen_height \div o.console_height>>

\* C11 as claimed: under the Automatic policy every resize, the first and
\* each later one, leaves the console with the new screen size divided by
\* the ratio of the startup AppOptions.
C11_StartupRatio ==
    AutomaticDone =>
        /\ StartupRatio[1] # 0
        /\ StartupRatio[2] # 0
        /\ ConsoleSize(apiCon) = <<apiScreen[1] \div StartupRatio[1],
                                   apiScreen[2] \div StartupRatio[2]>>

\* A second resize completes under the Automatic policy.
C11_Witness ==
    /\ AutomaticDone
    /\ resizedCount = 2
    /\ Unwrap(hist.startup).app_options = ExampleAppOptions

\* The panics that report a broken protocol: a take while the console is
\* held, a restore while it is not, a required slot found empty.
ProtocolFaults ==
    {"take: swap_console is None", "restore: swap_console is None",
     "take_doryen_render_schedule: the slot is empty",
     "add_system_to_stage: no such stage"}

\* C12 as claimed: a callback that ends in a panic ends in one that reports
\* a protocol violation, and under the Automatic policy resize never panics
\* when the startup sizes and every new screen size are at least 1.
C12_OnlyProtocolFaults ==
    /\ pc = "fault" => fault \in ProtocolFaults
    /\ (hist.call = "resize" /\ resize_mode = "Automatic") => pc # "fault"

\* The resize that follows a resize to a screen smaller than the ratio, from
\* the 800x600 screen over the 80x60 console, divides by the console width 0.
C12_Witness ==
    /\ pc = "fault"
    /\ fault = "attempt to divide by zero"
    /\ resize_mode = "Automatic"
    /\ resizedCount = 2
    /\ Unwrap(hist.startup).app_options = ExampleAppOptions
    /\ previous_console_size = <<0, 0>>

\* A resize call is under way, or the last callback to return was one.
InResize == hist.call = "resize" /\ pc \in
    {"resize_policy", "resize_take_insert", "resize_callback", "resize_restore",
     "resize_restore_swap", "resize_record", "loop"}

\* C13: under every policy a resize call has sent exactly one Resized event
\* when the policy is applied and sends no other; the event's new size is
\* the host loop's screen size, and its previous size is the new size of the
\* Resized event before it, or the screen size of the startup AppOptions
\* when it is the first.
C13_OneResizedPerCall ==
    InResize =>
        LET r == Unwrap(resized)
            o == Unwrap(hist.startup).app_options
        IN  /\ resizedCount = hist.resizeCalls
            /\ <<r.new_width, r.new_height>> = apiScreen
            /\ <<r.previous_width, r.previous_height>> =
                   IF hist.prevResized = None
                   THEN <<o.screen_width, o.screen_height>>
                   ELSE <<Unwrap(hist.prevResized).new_width,
                          Unwrap(hist.prevResized).new_height>>

\* A second resize call, to another screen size than the first, has sent
\* its event and returned.
C13_Witness ==
    /\ InResize
    /\ pc = "loop"
    /\ resizedCount = 2
    /\ hist.prevResized # None
    /\ Unwrap(resized).previous_width # Unwrap(resized).new_width
    /\ Unwrap(hist.prevResized).previous_width # Unwrap(hist.prevResized).new_width

\* C14: under the Callback policy the callback runs while the console is
\* taken: RootConsole holds the console the host loop held when resize was
\* called and the loop's slot holds the placeholder.  The callback is given
\* that console and the Resized event of this call, and the size it leaves
\* the console with is the size of the loop's console when resize returns
\* and the recorded previous_console_size.
C14_CallbackInBracket ==
    /\ pc = "resize_callback" =>
           /\ rootConsole = Some(Unwrap(hist.resizeIn).con)
           /\ Unwrap(rootConsole).real
           /\ swap_console = None
           /\ apiCon = PlaceholderConsole
    /\ (hist.call = "resize" /\ hist.callbackArgs # None) =>
           /\ resize_mode = "Callback"
           /\ Unwrap(hist.callbackArgs).con = Unwrap(hist.resizeIn).con
           /\ Unwrap(hist.callbackArgs).event = Unwrap(resized)
           /\ Unwrap(hist.callbackArgs).event.new_width = apiScreen[1]
           /\ Unwrap(hist.callbackArgs).event.new_height = apiScreen[2]
    /\ (hist.call = "resize" /\ resize_mode = "Callback" /\ pc = "loop") =>
           /\ hist.callbackOut # None
           /\ apiCon.real
           /\ rootConsole = None
           /\ ConsoleSize(apiCon) = Unwrap(hist.callbackOut)
           /\ previous_console_size = Unwrap(hist.callbackOut)

\* A resize under the Callback policy has returned, and its callback gave
\* the console another size than it had.
C14_Witness ==
    /\ hist.call = "resize"
    /\ resize_mode = "Callback"
    /\ pc = "loop"
    /\ hist.callbackOut # None
    /\ ConsoleSize(apiCon) = Unwrap(hist.callbackOut)
    /\ ConsoleSize(apiCon) # ConsoleSize(Unwrap(hist.resizeIn).con)

\* The settings the engine is to be built from: those the application
\* inserted, the defaults when it inserted none.
SettingsToConsume == IF hist.inserted = None THEN DefaultSettings ELSE Unwrap(hist.inserted)

\* C15: once the runner has started the loop, the engine holds the listener
\* list and the resize policy the application inserted, and until the first
\* resize the screen and console sizes of its AppOptions; with no settings
\* inserted these are Left, Middle, Right and Nothing.  The settings
\* resource holds the default values until a system writes to it.
C15_SettingsConsumed ==
    pc # "build" =>
        /\ mouse_button_listeners = SettingsToConsume.mouse_button_listeners
        /\ resize_mode = SettingsToConsume.resize_mode
        /\ hist.inserted = None =>
               /\ mouse_button_listeners = <<"Left", "Middle", "Right">>
               /\ resize_mode = "Nothing"
        /\ hist.resizeCalls = 0 =>
               /\ previous_screen_size = <<SettingsToConsume.app_options.screen_width,
                                           SettingsToConsume.app_options.screen_height>>
               /\ previous_console_size = <<SettingsToConsume.app_options.console_width,
                                            SettingsToConsume.app_options.console_height>>
               /\ previous_console_size = ConsoleSize(
                      IF apiCon.real THEN apiCon
                      ELSE IF rootConsole # None THEN Unwrap(rootConsole)
                      ELSE Unwrap(swap_console))
        /\ ~hist.settingsWritten => settings = Some(DefaultSettings)

\* The loop runs on inserted settings that differ from the defaults in
\* every field.
C15_Witness ==
    /\ pc = "loop"
    /\ hist.inserted # None
    /\ ~hist.settingsWritten
    /\ settings = Some(DefaultSettings)
    /\ mouse_button_listeners = <<"Right">>
    /\ resize_mode = "Callback"
    /\ previous_console_size = <<80, 60>>

\* C16: while the loop runs, the listener list and the resize policy of the
\* engine are those the runner consumed, whatever update, render and resize
\* calls were made and whatever a system wrote to the settings resource.
C16_EngineSettingsFixed ==
    pc # "build" =>
        /\ mouse_button_listeners = Unwrap(hist.startup).mouse_button_listeners
        /\ EngineResizeMode = Unwrap(hist.startup).resize_mode

\* A system wrote other settings to the resource than the runner consumed,
\* and a resize call has run to its end since.
C16_Witness ==
    /\ pc = "loop"
    /\ hist.call = "resize"
    /\ hist.settingsWritten
    /\ hist.renders > 0
    /\ Unwrap(settings).resize_mode # Unwrap(hist.startup).resize_mode
    /\ Unwrap(settings).mouse_button_listeners # Unwrap(hist.startup).mouse_button_listeners

\* C17: the Input resource reports a mouse button as pressed only if the
\* button is in the listener list the runner consumed; for the rest of an
\* update call that has refreshed it, it reports exactly the listened
\* buttons that the snapshot of that call has pressed.
C17_OnlyListenedButtons ==
    pc # "build" =>
        /\ doryen_input.mouse \subseteq SeqRange(Unwrap(hist.startup).mouse_button_listeners)
        /\ (hist.call = "update" /\ pc \notin {"update_input", "loop"}) =>
               doryen_input.mouse =
                   apiInput.mouse \cap SeqRange(Unwrap(hist.startup).mouse_button_listeners)

\* An update call has returned whose snapshot had a listened button and a
\* button outside the list pressed.
C17_Witness ==
    /\ pc = "loop"
    /\ hist.call = "update"
    /\ Unwrap(hist.startup).mouse_button_listeners = <<"Right">>
    /\ apiInput.mouse = {"Left", "Right"}
    /\ doryen_input.mouse = {"Right"}

\* The positions of an update call, in the order the claim gives its steps:
\* FPS Info, Input State, take, primary pass, restore, font path, exit.
UpdateOrder ==
    <<"loop", "update_input", "update_take", "update_take_insert", "pass_first",
      "pass", "update_restore", "update_restore_swap", "update_font", "update_exit">>

UpdatePosition(at) == CHOOSE i \in 1..Len(UpdateOrder) : UpdateOrder[i] = at

\* While the primary pass runs, RootConsole holds the real console and the
\* resources hold this call's fps values and snapshot; the font path is set
\* and the exit checked with the console back in the loop's slot.
UpdateStepsInPlace ==
    /\ pc \in {"pass_first", "pass"} =>
           /\ rootConsole # None
           /\ Unwrap(rootConsole).real
           /\ ~apiCon.real
           /\ <<fpsInfo.fps, fpsInfo.average_fps>> = Unwrap(hist.apiFps)
           /\ doryen_input = HandleInput(mouse_button_listeners, apiInput)
    /\ (pc \in {"update_font", "update_exit"} \/ hist.fontCalls # <<>>) =>
           /\ apiCon.real
           /\ rootConsole = None
    /\ hist.fontCalls # <<>> => pc \in {"update_exit", "loop"}

\* Every step of an update call leads to the next position of UpdateOrder,
\* and from the last back to the loop.
UpdateStepInOrder ==
    (hist.call' = "update" /\ pc' # pc /\ pc' # "fault") =>
        /\ pc \in SeqRange(UpdateOrder)
        /\ pc' \in SeqRange(UpdateOrder)
        /\ UpdatePosition(pc') = (UpdatePosition(pc) % Len(UpdateOrder)) + 1

\* C18: an update call refreshes FPS Info, refreshes the Input State, takes
\* the console, runs the primary pass, restores the console, applies the
\* pending font path and checks for exit, in this order; so the primary pass
\* runs with the real console in RootConsole and with this call's fps and
\* input values, and set_font_path and the exit check come after the
\* console is back in the loop's slot.
C18_UpdateOrder == [](UpdateStepsInPlace) /\ [][UpdateStepInOrder]_vars

\* An update call is at its exit check: its pass drew on the console and
\* sent a font path, which has been applied.
C18_Witness ==
    /\ pc = "update_exit"
    /\ hist.fontCalls # <<>>
    /\ apiCon.real
    /\ apiCon.content = 1
    /\ fpsInfo.fps = 30
    /\ doryen_input.mouse = {"Left"}

\* C19: restore_root_console_ownership called while RootConsole is empty
\* empties the swap slot and panics at the swap that follows; the real
\* console is then in the loop's slot, where it was.
C19_StrayRestore ==
    hist.strayRestore =>
        /\ pc \in {"cell_restore", "fault"}
        /\ pc = "fault" => fault = "restore: swap_console is None"
        /\ swap_console = None
        /\ rootConsole = None
        /\ apiCon.real
        /\ Holders = 1

\* The restore without a take, after a pair in which a system drew on the
\* console, has panicked.
C19_Witness ==
    /\ hist.strayRestore
    /\ pc = "fault"
    /\ hist.pairs = 1
    /\ hist.mutated
    /\ apiCon.real

\* C20: an update call calls set_font_path, once, exactly if a SetFontPath
\* event was sent since the font check before it; past a font check every
\* event sent so far is behind the reader, so none is applied a second
\* time.  An update call with no new SetFontPath and no new AppExit event
\* calls no set_font_path and returns Continue, and so does every update
\* call of an application without the AppExit queue that has no new font
\* event.
C20_QuietUpdate ==
    /\ AfterFontCheck =>
           /\ hist.fontCalls # <<>> <=> hist.fontSeen # <<>>
           /\ Len(hist.fontCalls) <= 1
           /\ LatestFontPath(fontReader, fontEvents) = None
    /\ (hist.call = "update" /\ pc = "loop") =>
           /\ (hist.fontSeen = <<>> /\ hist.exitSeen = 0) =>
                  hist.fontCalls = <<>> /\ updateResult = "Continue"
           /\ exitEvents = None => updateResult = "Continue"

\* An application without the AppExit queue: an update call with no new
\* event has returned Continue, after an earlier one applied a font path.
C20_Witness ==
    /\ hist.call = "update"
    /\ pc = "loop"
    /\ exitEvents = None
    /\ fontEvents.count >= 1
    /\ hist.fontSeen = <<>>
    /\ hist.fontCalls = <<>>
    /\ updateResult = "Continue"

\* A resize call under the Nothing policy is under way or has returned.
NothingResize == hist.call = "resize" /\ resize_mode = "Nothing"

\* Under the Nothing policy the console stays where and as it was when
\* resize was called, and resize passes through no take or restore.
NothingLeavesConsole ==
    NothingResize =>
        /\ pc \in {"resize_policy", "resize_record", "loop"}
        /\ apiCon = Unwrap(hist.resizeIn).con
        /\ rootConsole = None
        /\ swap_console = Some(PlaceholderConsole)
        /\ resizedCount = hist.resizeCalls
        /\ pc = "loop" =>
               /\ previous_screen_size = apiScreen
               /\ previous_console_size = ConsoleSize(apiCon)

\* A step of a resize call under the Nothing policy changes nothing but the
\* Resized queue, the loop's screen size it reads, and the recorded sizes.
NothingStep ==
    (hist.call' = "resize" /\ resize_mode = "Nothing") =>
        UNCHANGED <<conVars, settings, mouse_button_listeners, resize_mode, fpsInfo,
                    inputVars, schedVars, stateVars, eventVars, updateResult>>

\* C21: under the Nothing policy a resize call does not take the console
\* and leaves its size and content as they were; it sends its one Resized
\* event and records the new screen size and the console size, and has no
\* other effect.
C21_NothingPolicy == [](NothingLeavesConsole) /\ [][NothingStep]_vars

\* Two resize calls under the Nothing policy have returned; the screen has
\* another size than at startup, the console the size it had.
C21_Witness ==
    /\ NothingResize
    /\ pc = "loop"
    /\ resizedCount = 2
    /\ Unwrap(hist.startup).app_options = ExampleAppOptions
    /\ previous_screen_size = <<1600, 600>>
    /\ ConsoleSize(apiCon) = <<80, 60>>
    /\ previous_console_size = <<80, 60>>

\* C22: whenever a callback has returned to the host loop, the loop's slot
\* holds the real console, RootConsole is empty, the swap slot holds the
\* 1x1 placeholder, and the DoryenRenderSystems slot holds the schedule;
\* also after an update call that returned Exit.
C22_LoopState ==
    pc = "loop" =>
        /\ apiCon.real
        /\ rootConsole = None
        /\ swap_console = Some(PlaceholderConsole)
        /\ renderSystems # None
        /\ doryen_render_schedule = None

\* An update call has returned Exit, after render and resize calls under
\* the Callback policy.
C22_Witness ==
    /\ pc = "loop"
    /\ hist.call = "update"
    /\ updateResult = "Exit"
    /\ hist.renders > 0
    /\ resizedCount > 0
    /\ resize_mode = "Callback"
    /\ ConsoleSize(apiCon) = <<200, 75>>

\* C23: a call of state_updated, by a system of the primary pass or by a
\* system of the render schedule, keeps the flag set until a render pass
\* looks at it, and the render pass that looks at it next calls every
\* registered driver.
C23_StateUpdatedNotLost ==
    /\ hist.marked => rs0
    /\ (InRender(AfterDrivers) /\ hist.markedAtCheck) =>
           /\ hist.flagAtStart
           /\ Len(hist.driverLog) = Len(rs1)
           /\ \A d \in 1..Len(rs1) : hist.driverLog[d] = rs1[d]

\* A second render pass has called both drivers for a state_updated call
\* that a system of the render schedule made during the first; no system of
\* the primary pass called it in between.
C23_Witness ==
    /\ InRender(AfterDrivers)
    /\ hist.renders = 2
    /\ hist.markedAtCheck
    /\ ~hist.markedBetween
    /\ Len(rs1) = 2
    /\ Len(hist.driverLog) = 2

\* C24: an AppExit event that a system of the render schedule sent stays in
\* the queue, ahead of the reader, until the exit check of the next update
\* call, which returns Exit.
C24_RenderExitNotLost ==
    /\ hist.renderExitPending =>
           /\ exitEvents # None
           /\ ExitRequested(exitReader, Unwrap(exitEvents))
    /\ (hist.call = "update" /\ pc = "loop" /\ hist.renderExitSeen) =>
           updateResult = "Exit"

\* An update call has returned Exit for the one AppExit event pending, which
\* a system of the render schedule had sent.
C24_Witness ==
    /\ hist.call = "update"
    /\ pc = "loop"
    /\ hist.renderExitSeen
    /\ hist.exitSeen = 1
    /\ updateResult = "Exit"

====
